---- MODULE Spec2Model ----
(***************************************************************************)
(* Verification model of the MongoDB MCP server HTTP wrappers and of the   *)
(* tool execution pipeline.                                                *)
(*                                                                         *)
(* Two state machines share this module:                                   *)
(*   SpecPipeline - tool calls on one Session: registry lookup, argument   *)
(*                  validation, read-only gate, lazy connect, effective    *)
(*                  database, one backend operation, error handling.       *)
(*   SpecServer   - the three HTTP wrappers (http-server.ts, the SSE       *)
(*                  wrapper with a global server, the streamable-HTTP      *)
(*                  wrapper): startup, client connections, disconnects,    *)
(*                  termination signals.                                   *)
(***************************************************************************)
EXTENDS Integers, Sequences, FiniteSets, TLC

VARIABLES
    \* ---- tool execution pipeline (one Session) ----
    readOnly,          \* config.readOnly
    disabledTools,     \* config.disabledTools
    defaultDatabase,   \* the Session's configured default database
    providerState,     \* "disconnected" | "connecting" | "connected"
    connectAttempts,   \* number of connect() calls made on the provider
    connectedCount,    \* number of times the provider became connected
    serviceProvider,   \* 0 = none, else the id of the connected provider instance
    calls,             \* CallIds -> record, one per tool call
    backendLog,        \* set of [call, op, db]: backend operations issued
    \* ---- HTTP wrappers ----
    variant,           \* which wrapper runs
    phase,             \* "starting" | "validating" | "listening" | "exited"
    exitCode,          \* -1 while running, else the status given to process.exit
    globalServer,      \* 0 = null, else index into servers
    isServerInitialized,
    listener,          \* "none" | "accepting" | "closed"
    servers,           \* sequence of Server objects, in construction order
    conns,             \* ConnIds -> record, one per client connection / request
    signals,           \* SignalIds -> record, one per delivered termination signal
    shutdownLog,       \* sequence of shutdown steps taken by the signal handlers
    \* ---- one tool class run through execute and handleError ----
    run,               \* record: the invocation of one tool's callback
    \* ---- /health and /info, in two runs with different secrets ----
    secretConfig,      \* RunIds -> the secret configuration values of the run
    responses          \* the /info and /health bodies returned in each run

pipelineVars == <<readOnly, disabledTools, defaultDatabase, providerState, connectAttempts,
                  connectedCount, serviceProvider, calls, backendLog>>
serverVars == <<variant, phase, exitCode, globalServer, isServerInitialized,
                listener, servers, conns, signals, shutdownLog>>
toolVars == <<run, secretConfig, responses>>
vars == <<pipelineVars, serverVars, toolVars>>

----------------------------------------------------------------------------
(* Bounds *)

MaxCalls == 2
MaxConns == 2
MaxSignals == 2

CallIds == 1..MaxCalls
ConnIds == 1..MaxConns
SignalIds == 1..MaxSignals

----------------------------------------------------------------------------
(* Tool descriptors *)

NoSuchTool == "no-such-tool"

\* Tool classes of the code base whose source is present.
ToolClasses ==
    {"create-collection", "insert-many", "rename-collection", "drop-collection",
     "drop-database", "find", "aggregate", "list-collections", "explain",
     "db-stats", "collection-indexes"}

\* A catalog in which the create tool has been left registered.
MongoDbToolsWithCreate ==
    {"list-collections", "collection-schema", "find", "count", "aggregate",
     "create-collection"}

\* A catalog in which the explain tool has been left registered.
MongoDbToolsWithExplain ==
    {"list-collections", "collection-schema", "find", "count", "aggregate",
     "explain"}

\* A catalog in which the rename tool has been left registered.
MongoDbToolsWithRename ==
    {"list-collections", "collection-schema", "find", "count", "aggregate",
     "rename-collection"}

\* A catalog in which the drop-collection tool has been left registered.
MongoDbToolsWithDrop ==
    {"list-collections", "collection-schema", "find", "count", "aggregate",
     "drop-collection"}

\* The registered catalog.
MongoDbTools ==
    {"list-collections", "collection-schema", "find", "count", "aggregate"}

\* Values of config.disabledTools.
DisabledSets == {{}, {"find"}}

\* The Registry: the catalog without the tools named in the disabled-set.
Registry == MongoDbTools \ disabledTools

\* The operationType field of each tool class.
operationType(t) ==
    CASE t = "create-collection" -> "create"
      [] t = "insert-many" -> "create"
      [] t = "rename-collection" -> "update"
      [] t = "drop-collection" -> "delete"
      [] t = "drop-database" -> "delete"
      [] t = "find" -> "read"
      [] t = "aggregate" -> "read"
      [] t = "collection-indexes" -> "read"
      [] t = "count" -> "read"
      [] t = "list-collections" -> "metadata"
      [] t = "explain" -> "metadata"
      [] t = "db-stats" -> "metadata"
      [] t = "collection-schema" -> "metadata"
      [] OTHER -> "none"

\* The provider method a tool body calls.
BackendOp(t) ==
    CASE t = "create-collection" -> "createCollection"
      [] t = "insert-many" -> "insertMany"
      [] t = "rename-collection" -> "renameCollection"
      [] t = "drop-collection" -> "dropCollection"
      [] t = "drop-database" -> "dropDatabase"
      [] t = "find" -> "find"
      [] t = "aggregate" -> "aggregate"
      [] t = "collection-indexes" -> "getIndexes"
      [] t = "list-collections" -> "listCollections"
      [] t = "explain" -> "explain"
      [] t = "db-stats" -> "runCommandWithCheck"
      [] OTHER -> "none"

\* Tool names a client may send.
CallableNames == ToolClasses \cup {NoSuchTool}

----------------------------------------------------------------------------
(* Effective database *)

NoDatabase == "<undefined>"
RequestedDatabases == {NoDatabase, "", "orders"}
DefaultDatabases == {NoDatabase, "app"}

Present(db) == db # NoDatabase /\ db # ""

\* getEffectiveDatabase(requested): the requested database if present and
\* non-empty, else the configured default, else NoDatabase (DatabaseNotSpecified).
getEffectiveDatabase(requested, default) ==
    IF Present(requested) THEN requested
    ELSE IF Present(default) THEN default
    ELSE NoDatabase

----------------------------------------------------------------------------
(* Execution pipeline *)

IdleCall ==
    [pc |-> "idle", tool |-> NoSuchTool, database |-> NoDatabase, valid |-> TRUE,
     writing |-> FALSE, res |-> "none", attempt |-> 0, started |-> FALSE,
     provider |-> 0, ops |-> 0]

\* ensureConnected without memoization: a connect is started whenever the
\* provider is not connected yet.
MustStartConnectUnmemoized(state) == state # "connected"

\* ensureConnected: a connect is started only when the provider is
\* disconnected; while one is in flight the caller awaits that attempt.
MustStartConnect(state) == state = "disconnected"

\* Steps 1-3: the result kind that ends the call before the tool body,
\* or "none" when the tool body is entered.
PreExecute(t, valid) ==
    IF t \notin Registry THEN "UnknownTool"
    ELSE IF ~valid THEN "InvalidArguments"
    ELSE IF readOnly /\ operationType(t) \notin {"read", "metadata"}
         THEN "OperationNotPermitted"
    ELSE "none"

\* The tool body after `await this.ensureConnected()` has returned provider p:
\* resolve the effective database, then issue the one backend operation.
AfterConnected(c, call, p) ==
    LET db == getEffectiveDatabase(call.database, defaultDatabase) IN
    IF db = NoDatabase
    THEN [call EXCEPT !.pc = "done", !.res = "DatabaseNotSpecified", !.provider = p]
    ELSE [call EXCEPT !.pc = "awaitOp", !.provider = p, !.ops = @ + 1]

\* A tool body that hands the raw `database` argument to the provider
\* instead of the effective database.
OpsIssuedRequested(c, call) ==
    LET db == getEffectiveDatabase(call.database, defaultDatabase) IN
    IF db = NoDatabase THEN {}
    ELSE {[call |-> c, op |-> BackendOp(call.tool), db |-> call.database,
           writes |-> call.writing]}

\* The backend operation a tool body issues on the effective database.
OpsIssued(c, call) ==
    LET db == getEffectiveDatabase(call.database, defaultDatabase) IN
    IF db = NoDatabase THEN {}
    ELSE {[call |-> c, op |-> BackendOp(call.tool), db |-> db,
           writes |-> call.writing]}

\* A client calls tool t: steps 1-3, then the tool body up to its first
\* suspension point.  w: the pipeline argument of aggregate holds a writing
\* stage ($out or $merge); the body passes the pipeline on as it is.
CallTool(c, t, db, valid, w) ==
    /\ calls[c].pc = "idle"
    /\ \A d \in CallIds : d < c => calls[d].pc # "idle"
    /\ w => (t = "aggregate" /\ valid)
    /\ LET call == [IdleCall EXCEPT !.tool = t, !.database = db, !.valid = valid,
                                    !.writing = w]
           pre == PreExecute(t, valid)
       IN
       IF pre # "none"
       THEN \* no validated argument bag exists: the database argument is never read
            /\ calls' = [calls EXCEPT ![c] =
                    [call EXCEPT !.pc = "done", !.res = pre, !.database = NoDatabase,
                                 !.writing = FALSE]]
            /\ UNCHANGED <<providerState, connectAttempts, backendLog>>
       ELSE IF providerState = "connected"
       THEN /\ calls' = [calls EXCEPT ![c] = AfterConnected(c, call, serviceProvider)]
            /\ backendLog' = backendLog \cup OpsIssued(c, call)
            /\ UNCHANGED <<providerState, connectAttempts>>
       ELSE IF MustStartConnect(providerState)
       THEN /\ providerState' = "connecting"
            /\ connectAttempts' = connectAttempts + 1
            /\ calls' = [calls EXCEPT ![c] =
                    [call EXCEPT !.pc = "awaitConnect", !.started = TRUE,
                                 !.attempt = connectAttempts + 1]]
            /\ UNCHANGED backendLog
       ELSE /\ calls' = [calls EXCEPT ![c] =
                    [call EXCEPT !.pc = "awaitConnect", !.attempt = connectAttempts]]
            /\ UNCHANGED <<providerState, connectAttempts, backendLog>>
    /\ UNCHANGED <<readOnly, disabledTools, defaultDatabase, connectedCount, serviceProvider>>
    /\ UNCHANGED <<serverVars, toolVars>>

Waiting == {c \in CallIds : calls[c].pc = "awaitConnect"}

\* The in-flight connect succeeds: every caller awaiting it continues with the
\* connected provider.
ConnectSucceeds ==
    /\ providerState = "connecting"
    /\ providerState' = "connected"
    /\ connectedCount' = connectedCount + 1
    /\ serviceProvider' = connectAttempts
    /\ calls' = [c \in CallIds |->
                    IF c \in Waiting THEN AfterConnected(c, calls[c], connectAttempts)
                    ELSE calls[c]]
    /\ backendLog' = backendLog \cup UNION {OpsIssued(c, calls[c]) : c \in Waiting}
    /\ UNCHANGED <<readOnly, disabledTools, defaultDatabase, connectAttempts>>
    /\ UNCHANGED <<serverVars, toolVars>>

\* The in-flight connect fails: every caller awaiting it gets BackendUnavailable.
ConnectFails ==
    /\ providerState = "connecting"
    /\ providerState' = "disconnected"
    /\ calls' = [c \in CallIds |->
                    IF c \in Waiting
                    THEN [calls[c] EXCEPT !.pc = "done", !.res = "BackendUnavailable"]
                    ELSE calls[c]]
    /\ UNCHANGED <<readOnly, disabledTools, defaultDatabase, connectAttempts, connectedCount,
                   serviceProvider, backendLog>>
    /\ UNCHANGED <<serverVars, toolVars>>

\* The backend operation of call c settles; a raised error goes to the
\* generic handler.
OpSettles(c, ok) ==
    /\ calls[c].pc = "awaitOp"
    /\ calls' = [calls EXCEPT ![c] =
            [@ EXCEPT !.pc = "done", !.res = IF ok THEN "ok" ELSE "ExecutionFailed"]]
    /\ UNCHANGED <<readOnly, disabledTools, defaultDatabase, providerState, connectAttempts,
                   connectedCount, serviceProvider, backendLog>>
    /\ UNCHANGED <<serverVars, toolVars>>

----------------------------------------------------------------------------
(* HTTP wrappers *)

HttpServer == "http-server"          \* src/http-server.ts (SSE, one shared server)
SseGlobal == "sse-global"            \* SSE wrapper with globalServer
StreamableHttp == "streamable-http"  \* per-request wrapper, POST /mcp
Variants == {HttpServer, SseGlobal, StreamableHttp}
SseVariants == {HttpServer, SseGlobal}

\* new Session(...); new McpServer(...); new Server({mcpServer, session, ...}):
\* every Server is constructed together with its own new Session.
NewServer(n) ==
    [session |-> n, connectedTo |-> {}, closeCalls |-> 0, state |-> "open"]

NoConn ==
    [pc |-> "none", server |-> 0, headersSent |-> FALSE, status |-> 0,
     handlers |-> FALSE, closeFired |-> FALSE, errorFired |-> FALSE,
     transportClosed |-> FALSE, closing |-> 0, inflight |-> FALSE,
     lateError |-> FALSE]

NoSignal == [pc |-> "none"]

Running == phase = "listening"

\* server.close() is invoked on server s.
CloseInvoked(srvs, s) ==
    [srvs EXCEPT ![s] = [@ EXCEPT !.closeCalls = @ + 1,
                                  !.state = IF @ = "open" THEN "closing" ELSE @]]

\* An awaited server.close() on server s settles.
CloseSettled(srvs, s, ok) ==
    IF ok THEN [srvs EXCEPT ![s] = [@ EXCEPT !.state = "closed"]] ELSE srvs

\* An initializeGlobalServer without its first check: every call builds a
\* Session and a Server.
initializeGlobalServerNoGuard(gs, init, srvs) ==
    [servers |-> Append(srvs, NewServer(Len(srvs) + 1)),
     server |-> Len(srvs) + 1, awaits |-> TRUE]

\* initializeGlobalServer() up to its first suspension point, called with
\* globalServer = gs and isServerInitialized = init: it returns the global
\* server when there is one, else it builds a Session and a Server and
\* awaits server.validateConfiguration().
initializeGlobalServer(gs, init, srvs) ==
    IF init /\ gs # 0
    THEN [servers |-> srvs, server |-> gs, awaits |-> FALSE]
    ELSE [servers |-> Append(srvs, NewServer(Len(srvs) + 1)),
          server |-> Len(srvs) + 1, awaits |-> TRUE]

\* startHttpServer up to its first suspension point.
Start ==
    /\ phase = "starting"
    /\ LET init == initializeGlobalServer(globalServer, isServerInitialized,
                                          servers)
       IN  IF variant = HttpServer
           THEN /\ servers' = Append(servers, NewServer(Len(servers) + 1))
                /\ phase' = "listening"
                /\ listener' = "accepting"
           ELSE IF init.awaits
           THEN /\ servers' = init.servers
                /\ phase' = "validating"
                /\ UNCHANGED listener
           ELSE /\ servers' = init.servers
                /\ phase' = "listening"
                /\ listener' = "accepting"
    /\ UNCHANGED <<variant, exitCode, globalServer, isServerInitialized, conns,
                   signals, shutdownLog>>
    /\ UNCHANGED <<pipelineVars, toolVars>>

\* A startup that logs a failed initialisation and goes on to listen.
ValidateSettlesLenient(ok) ==
    /\ phase = "validating"
    /\ IF ok
       THEN /\ globalServer' = Len(servers)
            /\ isServerInitialized' = TRUE
       ELSE UNCHANGED <<globalServer, isServerInitialized>>
    /\ listener' = "accepting"
    /\ phase' = "listening"
    /\ UNCHANGED <<variant, exitCode, servers, conns, signals, shutdownLog>>
    /\ UNCHANGED <<pipelineVars, toolVars>>

\* await server.validateConfiguration() settles in initializeGlobalServer;
\* on success the rest of startHttpServer runs (listen, signal handlers).
ValidateSettles(ok) ==
    /\ phase = "validating"
    /\ IF ok
       THEN /\ globalServer' = Len(servers)
            /\ isServerInitialized' = TRUE
            /\ listener' = "accepting"
            /\ phase' = "listening"
            /\ UNCHANGED exitCode
       ELSE /\ phase' = "exited"
            /\ exitCode' = 1
            /\ UNCHANGED <<globalServer, isServerInitialized, listener>>
    /\ UNCHANGED <<variant, servers, conns, signals, shutdownLog>>
    /\ UNCHANGED <<pipelineVars, toolVars>>

Admissible(c) ==
    /\ Running
    /\ listener = "accepting"
    /\ conns[c].pc = "none"
    /\ \A d \in ConnIds : d < c => conns[d].pc # "none"

\* http-server.ts GET /sse: a transport for this response, connected to the
\* one server built at startup.
SseConnectShared(c) ==
    /\ variant = HttpServer
    /\ Admissible(c)
    /\ conns' = [conns EXCEPT ![c] = [@ EXCEPT !.pc = "connecting", !.server = 1]]
    /\ UNCHANGED <<variant, phase, exitCode, globalServer, isServerInitialized,
                   listener, servers, signals, shutdownLog>>
    /\ UNCHANGED <<pipelineVars, toolVars>>

\* SSE wrapper GET /sse: initialised check, SSE headers, a new Session and
\* Server for this connection, then await server.connect(transport).
SseAccept(c) ==
    /\ variant = SseGlobal
    /\ Admissible(c)
    /\ IF globalServer = 0 \/ ~isServerInitialized
       THEN /\ conns' = [conns EXCEPT ![c] =
                    [@ EXCEPT !.pc = "failed", !.status = 500, !.headersSent = TRUE]]
            /\ UNCHANGED servers
       ELSE /\ servers' = Append(servers, NewServer(Len(servers) + 1))
            /\ conns' = [conns EXCEPT ![c] =
                    [@ EXCEPT !.pc = "connecting", !.server = Len(servers) + 1,
                              !.status = 200, !.headersSent = TRUE]]
    /\ UNCHANGED <<variant, phase, exitCode, globalServer, isServerInitialized,
                   listener, signals, shutdownLog>>
    /\ UNCHANGED <<pipelineVars, toolVars>>

\* A catch block that also tears down the shared server when the setup of
\* one connection fails.
SseCatchClosingShared(c, sent) ==
    /\ conns' = [conns EXCEPT ![c] = [@ EXCEPT !.pc = "failed"]]
    /\ servers' = CloseInvoked(servers,
                       IF variant = HttpServer THEN 1 ELSE globalServer)

\* The catch of a GET /sse handler.  http-server.ts logs and calls
\* res.status(500).json(...), which answers only if the transport had not
\* yet written the response head (sent); the SSE wrapper with per-connection
\* servers has written the head itself, finds res.headersSent and only logs.
\* lateError records that http-server.ts made the call on a response whose
\* head was already out: there is no res.headersSent test in its catch.
SseCatch(c, sent) ==
    /\ conns' = [conns EXCEPT ![c] =
            IF variant = SseGlobal
            THEN [@ EXCEPT !.pc = "failed"]
            ELSE IF sent
                 THEN [@ EXCEPT !.pc = "failed", !.status = 200,
                                !.headersSent = TRUE, !.lateError = TRUE]
                 ELSE [@ EXCEPT !.pc = "failed", !.status = 500,
                                !.headersSent = TRUE]]
    /\ UNCHANGED servers

\* await server.connect(transport) settles in a GET /sse handler; a
\* rejection may come before or after the transport wrote the response head.
SseConnectSettles(c, ok, sent) ==
    /\ variant \in SseVariants
    /\ Running
    /\ conns[c].pc = "connecting"
    /\ (ok \/ variant = SseGlobal) => sent
    /\ IF ok
       THEN /\ servers' = [servers EXCEPT ![conns[c].server] =
                    [@ EXCEPT !.connectedTo = @ \cup {c}]]
            /\ conns' = [conns EXCEPT ![c] =
                    [@ EXCEPT !.pc = "serving", !.status = 200,
                              !.headersSent = TRUE,
                              !.handlers = (variant = SseGlobal)]]
       ELSE SseCatch(c, sent)
    /\ UNCHANGED <<variant, phase, exitCode, globalServer, isServerInitialized,
                   listener, signals, shutdownLog>>
    /\ UNCHANGED <<pipelineVars, toolVars>>

\* The server object built by getServer() where the global one is handed out.
getServerGlobal == [servers |-> servers, id |-> globalServer]

\* getServer(): a new Session and a new Server around it.
getServer ==
    [servers |-> Append(servers, NewServer(Len(servers) + 1)),
     id |-> Len(servers) + 1]

\* POST /mcp: getServer(), a transport without session id, the res 'close'
\* handler, then await server.connect(transport).
McpPost(c) ==
    /\ variant = StreamableHttp
    /\ Admissible(c)
    /\ servers' = getServer.servers
    /\ conns' = [conns EXCEPT ![c] =
            [@ EXCEPT !.pc = "connecting", !.server = getServer.id,
                      !.handlers = TRUE]]
    /\ UNCHANGED <<variant, phase, exitCode, globalServer, isServerInitialized,
                   listener, signals, shutdownLog>>
    /\ UNCHANGED <<pipelineVars, toolVars>>

\* The catch of the POST /mcp handler.
McpCatch(conn) ==
    IF conn.headersSent
    THEN [conn EXCEPT !.pc = "failed"]
    ELSE [conn EXCEPT !.pc = "failed", !.status = 500, !.headersSent = TRUE]

\* await server.connect(transport) settles in the POST /mcp handler; on
\* success transport.handleRequest starts.
McpConnectSettles(c, ok) ==
    /\ variant = StreamableHttp
    /\ Running
    /\ conns[c].pc = "connecting"
    /\ IF ok
       THEN /\ servers' = [servers EXCEPT ![conns[c].server] =
                    [@ EXCEPT !.connectedTo = @ \cup {c}]]
            /\ conns' = [conns EXCEPT ![c] =
                    [@ EXCEPT !.pc = "handling", !.inflight = TRUE]]
       ELSE /\ conns' = [conns EXCEPT ![c] = McpCatch(@)]
            /\ UNCHANGED servers
    /\ UNCHANGED <<variant, phase, exitCode, globalServer, isServerInitialized,
                   listener, signals, shutdownLog>>
    /\ UNCHANGED <<pipelineVars, toolVars>>

\* await transport.handleRequest(req, res, req.body) settles; a rejection may
\* come before or after the response head was written.
McpHandleSettles(c, ok, sent) ==
    /\ variant = StreamableHttp
    /\ Running
    /\ conns[c].pc = "handling"
    /\ ok => sent
    /\ conns' = [conns EXCEPT ![c] =
            IF ok
            THEN [@ EXCEPT !.pc = "responded", !.status = 200, !.headersSent = TRUE,
                           !.inflight = FALSE]
            ELSE McpCatch([@ EXCEPT !.inflight = FALSE,
                                    !.headersSent = sent,
                                    !.status = IF sent THEN 200 ELSE 0])]
    /\ UNCHANGED <<variant, phase, exitCode, globalServer, isServerInitialized,
                   listener, servers, signals, shutdownLog>>
    /\ UNCHANGED <<pipelineVars, toolVars>>

\* A client that is served may have a tool call in flight on its server.
CanServe(c) ==
    /\ conns[c].pc = "serving"
    /\ ~conns[c].closeFired
    /\ c \in servers[conns[c].server].connectedTo
    /\ servers[conns[c].server].state = "open"

ToolCallStart(c) ==
    /\ variant \in SseVariants
    /\ Running
    /\ CanServe(c)
    /\ ~conns[c].inflight
    /\ conns' = [conns EXCEPT ![c] = [@ EXCEPT !.inflight = TRUE]]
    /\ UNCHANGED <<variant, phase, exitCode, globalServer, isServerInitialized,
                   listener, servers, signals, shutdownLog>>
    /\ UNCHANGED <<pipelineVars, toolVars>>

ToolCallEnd(c) ==
    /\ variant \in SseVariants
    /\ Running
    /\ conns[c].inflight
    /\ conns' = [conns EXCEPT ![c] = [@ EXCEPT !.inflight = FALSE]]
    /\ UNCHANGED <<variant, phase, exitCode, globalServer, isServerInitialized,
                   listener, servers, signals, shutdownLog>>
    /\ UNCHANGED <<pipelineVars, toolVars>>

\* The disconnect handlers closing the global server instead of their own.
DisconnectTargetGlobal(c) == globalServer

\* The server the req 'close' / 'error' handlers of connection c close.
DisconnectTarget(c) == conns[c].server

\* What the handlers registered for connection c do when its request or
\* response emits 'close' or 'error'.
OnDisconnect(c, isClose) ==
    IF variant = SseGlobal /\ conns[c].handlers
    THEN /\ servers' = CloseInvoked(servers, DisconnectTarget(c))
         /\ conns' = [conns EXCEPT ![c] =
                [@ EXCEPT !.closeFired = @ \/ isClose,
                          !.errorFired = @ \/ ~isClose,
                          !.closing = @ + 1]]
    ELSE /\ conns' = [conns EXCEPT ![c] =
                [@ EXCEPT !.closeFired = @ \/ isClose,
                          !.errorFired = @ \/ ~isClose,
                          !.transportClosed =
                              @ \/ (variant = StreamableHttp /\ isClose
                                    /\ conns[c].handlers)]]
         /\ UNCHANGED servers

\* The request of connection c emits 'error' (before any 'close').
ClientError(c) ==
    /\ variant = SseGlobal
    /\ Running
    /\ conns[c].pc # "none"
    /\ ~conns[c].errorFired
    /\ ~conns[c].closeFired
    /\ OnDisconnect(c, FALSE)
    /\ UNCHANGED <<variant, phase, exitCode, globalServer, isServerInitialized,
                   listener, signals, shutdownLog>>
    /\ UNCHANGED <<pipelineVars, toolVars>>

\* The request / response of connection c emits 'close': the client went
\* away, or the response has been sent completely.
ClientClose(c) ==
    /\ Running
    /\ conns[c].pc # "none"
    /\ ~conns[c].closeFired
    /\ OnDisconnect(c, TRUE)
    /\ UNCHANGED <<variant, phase, exitCode, globalServer, isServerInitialized,
                   listener, signals, shutdownLog>>
    /\ UNCHANGED <<pipelineVars, toolVars>>

\* An `await server.close()` of a disconnect handler of connection c settles;
\* a rejection is logged.
DisconnectCloseSettles(c, ok) ==
    /\ variant = SseGlobal
    /\ Running
    /\ conns[c].closing > 0
    /\ servers' = CloseSettled(servers, DisconnectTarget(c), ok)
    /\ conns' = [conns EXCEPT ![c] = [@ EXCEPT !.closing = @ - 1]]
    /\ UNCHANGED <<variant, phase, exitCode, globalServer, isServerInitialized,
                   listener, signals, shutdownLog>>
    /\ UNCHANGED <<pipelineVars, toolVars>>

\* A shutdown handler whose null check is inverted: it closes nothing when
\* a server exists.
ShutdownTargetInverted ==
    IF variant = HttpServer \/ globalServer # 0 THEN 0 ELSE globalServer

\* The server a signal handler closes: `server` in http-server.ts,
\* `globalServer` (if non-null) in the other two wrappers.
ShutdownTarget == IF variant = HttpServer THEN 1 ELSE globalServer

\* SIGINT or SIGTERM is delivered to the registered handler:
\* httpServer.close(), then server.close() is called and awaited.  The
\* handlers are registered at the end of startHttpServer, once the process
\* listens; each delivery runs the handler again.
Signal(g) ==
    /\ Running
    /\ signals[g].pc = "none"
    /\ \A h \in SignalIds : h < g => signals[h].pc # "none"
    /\ listener' = "closed"
    /\ IF ShutdownTarget # 0
       THEN /\ servers' = CloseInvoked(servers, ShutdownTarget)
            /\ shutdownLog' = shutdownLog \o <<"stopAccepting", "closeShared">>
            /\ signals' = [signals EXCEPT ![g] = [pc |-> "awaitClose"]]
            /\ UNCHANGED <<phase, exitCode>>
       ELSE /\ shutdownLog' = shutdownLog \o <<"stopAccepting", "exit">>
            /\ signals' = [signals EXCEPT ![g] = [pc |-> "done"]]
            /\ phase' = "exited"
            /\ exitCode' = 0
            /\ UNCHANGED servers
    /\ UNCHANGED <<variant, globalServer, isServerInitialized, conns>>
    /\ UNCHANGED <<pipelineVars, toolVars>>

\* A signal handler whose catch block only logs: after a failed close the
\* handler returns without calling process.exit.
ShutdownOutcomeNoExit(ok) ==
    IF ok
    THEN [log |-> <<"exit">>, phase |-> "exited", code |-> 0]
    ELSE [log |-> <<"closeFailed">>, phase |-> "listening", code |-> -1]

\* What follows the awaited close in a signal handler: process.exit(0)
\* after a successful close; in the catch block the error is logged and
\* process.exit(1) is called.
ShutdownOutcome(ok) ==
    IF ok
    THEN [log |-> <<"exit">>, phase |-> "exited", code |-> 0]
    ELSE [log |-> <<"closeFailed", "exit">>, phase |-> "exited", code |-> 1]

\* The awaited close of a signal handler settles: process.exit(0), or the
\* error is logged and process.exit(1).
SignalCloseSettles(g, ok) ==
    /\ Running
    /\ signals[g].pc = "awaitClose"
    /\ servers' = CloseSettled(servers, ShutdownTarget, ok)
    /\ signals' = [signals EXCEPT ![g] = [pc |-> "done"]]
    /\ shutdownLog' = shutdownLog \o ShutdownOutcome(ok).log
    /\ phase' = ShutdownOutcome(ok).phase
    /\ exitCode' = ShutdownOutcome(ok).code
    /\ UNCHANGED <<variant, globalServer, isServerInitialized, listener, conns>>
    /\ UNCHANGED <<pipelineVars, toolVars>>

----------------------------------------------------------------------------
(* A tool class run on its own: execute, and handleError on what it throws *)

NoCodeName == "<none>"
CodeNames == {NoCodeName, "NamespaceNotFound", "NamespaceExists", "Unauthorized"}

\* Values an awaited call can throw: an Error or some other value, with or
\* without a codeName property.
Thrown(origin) ==
    [origin : {origin}, isError : BOOLEAN, codeName : CodeNames,
     message : {"boom"}]

\* The error getEffectiveDatabase fails with.
DatabaseNotSpecifiedError ==
    [origin |-> "database", isError |-> TRUE, codeName |-> NoCodeName,
     message |-> "No database specified"]

\* The error ExplainTool.execute throws for an empty method list.
NoMethodError ==
    [origin |-> "execute", isError |-> TRUE, codeName |-> NoCodeName,
     message |-> "No method provided. Expected one of the following: aggregate, find, or count"]

\* The method argument of explain: a list of methods, given by their names.
MethodNames == {"aggregate", "find", "count"}
MethodLists ==
    {<<>>} \cup {<<m>> : m \in MethodNames}
           \cup {<<m, n>> : m \in MethodNames, n \in MethodNames}
NoMethod == "<undefined>"

\* An explain that takes the last element of the method list.
ExplainMethodLast(methods) ==
    IF methods = <<>> THEN NoMethod ELSE methods[Len(methods)]

\* const method = methods[0]
ExplainMethod(methods) ==
    IF methods = <<>> THEN NoMethod ELSE methods[1]

\* The one request a tool body sends to the backend for database db:
\* explain sends an explain request for its method (cursor.explain or the
\* explain command), every other tool calls its provider method.
ToolOperation(r, db) ==
    IF r.tool = "explain"
    THEN [op |-> "explain", of |-> ExplainMethod(r.method), db |-> db]
    ELSE [op |-> BackendOp(r.tool), of |-> "none", db |-> db]

NoError ==
    [origin |-> "none", isError |-> FALSE, codeName |-> NoCodeName,
     message |-> ""]

\* The arguments collection and newName.
Collection == "events"
NoName == "<undefined>"
NewNames == {"archive", "events_old"}

DropTargetGuidance ==
    "\" because the target collection already exists. If you want to overwrite it, set the \"dropTarget\" argument to true."

\* What an error object turns into when it is put into a text itself.
RawErrorText == "[object Object]"

IdleRun ==
    [pc |-> "idle", tool |-> NoSuchTool, database |-> NoDatabase,
     newName |-> NoName, method |-> <<>>, error |-> NoError, res |-> "none",
     text |-> <<>>, raised |-> FALSE, trace |-> <<>>, ops |-> <<>>]

\* An exception leaves handleError.
Raises == [res |-> "none", text |-> <<>>, raised |-> TRUE]

\* The generic handler of the base class: an error result that carries the
\* error's message.
SuperHandleError(t, err, args) ==
    [res |-> CASE err.origin = "connect" -> "BackendUnavailable"
               [] err.origin = "database" -> "DatabaseNotSpecified"
               [] OTHER -> "ExecutionFailed",
     text |-> <<"Error running ", t, ": ", err.message>>,
     raised |-> FALSE]

\* A translator for rename-collection that names the source collection as
\* the target and appends the error object.
RenameHandleErrorWrongTarget(err, args) ==
    IF err.isError /\ err.codeName # NoCodeName
    THEN LET effectiveDatabase ==
                 getEffectiveDatabase(args.database, defaultDatabase) IN
         IF effectiveDatabase = NoDatabase THEN Raises
         ELSE CASE err.codeName = "NamespaceNotFound" ->
                     [res |-> "DomainError",
                      text |-> <<"Cannot rename \"", effectiveDatabase, ".",
                                 Collection, "\" because it doesn't exist.">>,
                      raised |-> FALSE]
                [] err.codeName = "NamespaceExists" ->
                     [res |-> "DomainError",
                      text |-> <<"Cannot rename \"", effectiveDatabase, ".",
                                 Collection, "\" to \"", Collection,
                                 "\": ", RawErrorText>>,
                      raised |-> FALSE]
                [] OTHER -> SuperHandleError("rename-collection", err, args)
    ELSE SuperHandleError("rename-collection", err, args)

\* RenameCollectionTool.handleError: for an Error with a codeName the
\* effective database is resolved first, then the codeName is switched on.
RenameHandleError(err, args) ==
    IF err.isError /\ err.codeName # NoCodeName
    THEN LET effectiveDatabase ==
                 getEffectiveDatabase(args.database, defaultDatabase) IN
         IF effectiveDatabase = NoDatabase THEN Raises
         ELSE CASE err.codeName = "NamespaceNotFound" ->
                     [res |-> "DomainError",
                      text |-> <<"Cannot rename \"", effectiveDatabase, ".",
                                 Collection, "\" because it doesn't exist.">>,
                      raised |-> FALSE]
                [] err.codeName = "NamespaceExists" ->
                     [res |-> "DomainError",
                      text |-> <<"Cannot rename \"", effectiveDatabase, ".",
                                 Collection, "\" to \"", args.newName,
                                 DropTargetGuidance>>,
                      raised |-> FALSE]
                [] OTHER -> SuperHandleError("rename-collection", err, args)
    ELSE SuperHandleError("rename-collection", err, args)

\* CollectionIndexesTool.handleError: only an Error whose codeName is
\* NamespaceNotFound is translated, and only then is the effective database
\* resolved.
IndexesHandleError(err, args) ==
    IF err.isError /\ err.codeName = "NamespaceNotFound"
    THEN LET effectiveDatabase ==
                 getEffectiveDatabase(args.database, defaultDatabase) IN
         IF effectiveDatabase = NoDatabase THEN Raises
         ELSE [res |-> "DomainError",
               text |-> <<"The indexes for \"", effectiveDatabase, ".",
                          Collection,
                          "\" cannot be determined because the collection does not exist.">>,
               raised |-> FALSE]
    ELSE SuperHandleError("collection-indexes", err, args)

\* handleError of tool class t.
handleError(t, err, args) ==
    CASE t = "rename-collection" -> RenameHandleError(err, args)
      [] t = "collection-indexes" -> IndexesHandleError(err, args)
      [] OTHER -> SuperHandleError(t, err, args)

\* execute, having got as far as r, threw err: the callback hands it to
\* handleError.
Catch(r, err) ==
    LET h == handleError(r.tool, err, r) IN
    run' = [r EXCEPT !.pc = "done", !.error = err, !.res = h.res,
                     !.text = h.text, !.raised = h.raised]

\* The callback of tool class t is invoked with validated arguments:
\* execute runs up to `await this.ensureConnected()`.
Invoke(t, db, nn, ms) ==
    /\ run.pc = "idle"
    /\ (t = "rename-collection") <=> (nn # NoName)
    /\ (t # "explain") => (ms = <<>>)
    /\ run' = [run EXCEPT !.pc = "awaitConnect", !.tool = t, !.database = db,
                          !.newName = nn, !.method = ms,
                          !.trace = <<"ensureConnected">>]
    /\ UNCHANGED <<pipelineVars, serverVars, secretConfig, responses>>

\* ensureConnected settles: on success the effective database is resolved
\* and the provider method is called; a failure is thrown out of execute.
EnsureConnectedSettles(ok, err) ==
    /\ run.pc = "awaitConnect"
    /\ IF ~ok THEN Catch(run, err)
       ELSE LET db == getEffectiveDatabase(run.database, defaultDatabase)
                resolved == [run EXCEPT
                                !.trace = Append(@, "getEffectiveDatabase")]
            IN  IF db = NoDatabase
                THEN Catch(resolved, DatabaseNotSpecifiedError)
                ELSE IF run.tool = "explain"
                        /\ ExplainMethod(run.method) = NoMethod
                THEN Catch(resolved, NoMethodError)
                ELSE run' = [resolved EXCEPT
                                !.pc = "awaitOp",
                                !.trace = Append(@, "operation"),
                                !.ops = Append(@, ToolOperation(run, db))]
    /\ UNCHANGED <<pipelineVars, serverVars, secretConfig, responses>>

\* A template literal puts the value undefined into a text as the word
\* undefined, and a string as it is.
TemplateText(v) == IF v = NoDatabase THEN "undefined" ELSE v

\* How a result count or flag of the backend appears in a text.
CountText(found) == IF found THEN "1" ELSE "0"
DroppedText(found) == IF found THEN "Successfully dropped" ELSE "Failed to drop"

\* The first text of the result a tool body returns once its provider
\* method has answered, as the parts its template literal joins; found says
\* whether the answer was non-empty (truthy).  The texts that follow it hold
\* the serialised documents only.  The backquotes explain puts around the
\* method name are left out.
SuccessText(r, found) ==
    LET database == r.database
        effectiveDatabase == getEffectiveDatabase(r.database, defaultDatabase)
    IN  CASE r.tool = "list-collections" ->
                IF found
                THEN <<"Name: \"", Collection, "\"">>
                ELSE <<"No collections found for database \"",
                       TemplateText(database),
                       "\". To create a collection, use the \"create-collection\" tool.">>
          [] r.tool = "create-collection" ->
                <<"Collection \"", Collection, "\" created in database \"",
                  effectiveDatabase, "\".">>
          [] r.tool = "db-stats" ->
                <<"Statistics for database ", effectiveDatabase>>
          [] r.tool = "rename-collection" ->
                <<"Collection \"", Collection, "\" renamed to \"", r.newName,
                  "\" in database \"", effectiveDatabase, "\".">>
          [] r.tool = "drop-collection" ->
                <<DroppedText(found), " collection \"", Collection,
                  "\" from database \"", effectiveDatabase, "\"">>
          [] r.tool = "drop-database" ->
                <<DroppedText(found), " database \"", effectiveDatabase, "\"">>
          [] r.tool = "explain" ->
                <<"Here is some information about the winning plan chosen by the query optimizer for running the given ",
                  ExplainMethod(r.method), " operation in \"",
                  effectiveDatabase, ".", Collection,
                  "\". This information can be used to understand how the query was executed and to optimize the query performance.">>
          [] r.tool = "insert-many" ->
                <<"Inserted ", CountText(found),
                  " document(s) into collection \"", Collection, "\"">>
          [] r.tool = "collection-indexes" ->
                <<"Found ", CountText(found), " indexes in the collection \"",
                  Collection, "\":">>
          [] OTHER ->
                <<"Found ", CountText(found),
                  " documents in the collection \"", Collection, "\":">>

\* A tool body that calls the provider method again when it has failed.
OperationSettlesRetrying(ok, err) ==
    /\ run.pc = "awaitOp"
    /\ IF ok
       THEN run' = [run EXCEPT !.pc = "done", !.res = "ok"]
       ELSE IF Len(run.ops) < 2
            THEN run' = [run EXCEPT !.trace = Append(@, "operation"),
                                    !.ops = Append(@, run.ops[1])]
            ELSE Catch(run, err)
    /\ UNCHANGED <<pipelineVars, serverVars, secretConfig, responses>>

\* The awaited provider method settles: with an answer, from which the
\* result text is built, or with an error that is thrown out of execute.
OperationSettles(ok, err) ==
    /\ run.pc = "awaitOp"
    /\ IF ok
       THEN \E found \in BOOLEAN :
               run' = [run EXCEPT !.pc = "done", !.res = "ok",
                                  !.text = SuccessText(run, found)]
       ELSE Catch(run, err)
    /\ UNCHANGED <<pipelineVars, serverVars, secretConfig, responses>>

----------------------------------------------------------------------------
(* The /health and /info endpoints, for two runs of one wrapper whose
   configurations hold different secrets *)

RunIds == {1, 2}

\* Values of config.apiClientId, config.apiClientSecret and
\* config.connectionString: not set, set to the empty string, or set.
Absent == "<undefined>"
SecretValues == {Absent, "", "s3cr3t-A", "s3cr3t-B"}

Secrets ==
    [apiClientId : SecretValues, apiClientSecret : SecretValues,
     connectionString : SecretValues]

\* JavaScript truthiness of a string-or-undefined value, as used by `!!` and
\* `&&`.
Truthy(v) == v \notin {Absent, ""}

NoResponse == [sent |-> FALSE]

\* new Date().toISOString() at the time of the request.
Timestamp == "<now>"

\* An /info handler that reports the connection string itself.
InfoPayloadLeaking(s) ==
    [sent |-> TRUE,
     description |-> "MongoDB MCP Server HTTP Wrapper",
     transport |-> variant,
     config |-> [hasAtlasCredentials |->
                     Truthy(s.apiClientId) /\ Truthy(s.apiClientSecret),
                 hasConnectionString |-> Truthy(s.connectionString),
                 connectionString |-> s.connectionString,
                 readOnly |-> readOnly,
                 disabledTools |-> disabledTools]]

\* The body of the /info response for a run whose secrets are s; name and
\* version come from package.json, transport and endpoints are fixed per
\* wrapper.
InfoPayload(s) ==
    [sent |-> TRUE,
     description |-> "MongoDB MCP Server HTTP Wrapper",
     transport |-> variant,
     config |-> [hasAtlasCredentials |->
                     Truthy(s.apiClientId) /\ Truthy(s.apiClientSecret),
                 hasConnectionString |-> Truthy(s.connectionString),
                 readOnly |-> readOnly,
                 disabledTools |-> disabledTools]]

\* The body of the /health response; http-server.ts has no mcpServerReady.
HealthPayload ==
    [sent |-> TRUE, status |-> "healthy", timestamp |-> Timestamp,
     mcpServerReady |-> IF variant = HttpServer THEN "<absent>"
                        ELSE IF isServerInitialized THEN "true" ELSE "false"]

IdleResponses ==
    [info |-> [i \in RunIds |-> NoResponse],
     health |-> [i \in RunIds |-> NoResponse]]

\* GET /info in run i.
GetInfo(i) ==
    /\ Running
    /\ listener = "accepting"
    /\ ~responses.info[i].sent
    /\ responses' = [responses EXCEPT !.info[i] = InfoPayload(secretConfig[i])]
    /\ UNCHANGED <<pipelineVars, serverVars, run, secretConfig>>

\* GET /health in run i.
GetHealth(i) ==
    /\ Running
    /\ listener = "accepting"
    /\ ~responses.health[i].sent
    /\ responses' = [responses EXCEPT !.health[i] = HealthPayload]
    /\ UNCHANGED <<pipelineVars, serverVars, run, secretConfig>>

----------------------------------------------------------------------------
(* Specifications *)

PipelineIdle ==
    /\ providerState = "disconnected"
    /\ connectAttempts = 0
    /\ connectedCount = 0
    /\ serviceProvider = 0
    /\ calls = [c \in CallIds |-> IdleCall]
    /\ backendLog = {}

ServerIdle ==
    /\ phase = "starting"
    /\ exitCode = -1
    /\ globalServer = 0
    /\ isServerInitialized = FALSE
    /\ listener = "none"
    /\ servers = <<>>
    /\ conns = [c \in ConnIds |-> NoConn]
    /\ signals = [g \in SignalIds |-> NoSignal]
    /\ shutdownLog = <<>>

InfoIdle ==
    /\ secretConfig = [i \in RunIds |->
            [apiClientId |-> Absent, apiClientSecret |-> Absent,
             connectionString |-> Absent]]
    /\ responses = IdleResponses

InitPipeline ==
    /\ readOnly \in BOOLEAN
    /\ disabledTools \in DisabledSets
    /\ defaultDatabase \in DefaultDatabases
    /\ PipelineIdle
    /\ variant = HttpServer
    /\ ServerIdle
    /\ run = IdleRun
    /\ InfoIdle

InitTool ==
    /\ readOnly = FALSE
    /\ disabledTools = {}
    /\ defaultDatabase \in DefaultDatabases
    /\ PipelineIdle
    /\ variant = HttpServer
    /\ ServerIdle
    /\ run = IdleRun
    /\ InfoIdle

InitInfo ==
    /\ readOnly \in BOOLEAN
    /\ disabledTools \in DisabledSets
    /\ defaultDatabase = NoDatabase
    /\ PipelineIdle
    /\ variant \in Variants
    /\ ServerIdle
    /\ run = IdleRun
    /\ secretConfig \in [RunIds -> Secrets]
    /\ responses = IdleResponses

InitServer ==
    /\ readOnly = FALSE
    /\ disabledTools = {}
    /\ defaultDatabase = NoDatabase
    /\ PipelineIdle
    /\ variant \in Variants
    /\ ServerIdle
    /\ run = IdleRun
    /\ InfoIdle

NextPipeline ==
    \/ \E c \in CallIds, t \in CallableNames, db \in RequestedDatabases,
          valid \in BOOLEAN, w \in BOOLEAN : CallTool(c, t, db, valid, w)
    \/ ConnectSucceeds
    \/ ConnectFails
    \/ \E c \in CallIds, ok \in BOOLEAN : OpSettles(c, ok)

NextServer ==
    \/ Start
    \/ \E ok \in BOOLEAN : ValidateSettles(ok)
    \/ \E c \in ConnIds : SseConnectShared(c)
    \/ \E c \in ConnIds : SseAccept(c)
    \/ \E c \in ConnIds, ok \in BOOLEAN, sent \in BOOLEAN :
          SseConnectSettles(c, ok, sent)
    \/ \E c \in ConnIds : McpPost(c)
    \/ \E c \in ConnIds, ok \in BOOLEAN : McpConnectSettles(c, ok)
    \/ \E c \in ConnIds, ok \in BOOLEAN, sent \in BOOLEAN : McpHandleSettles(c, ok, sent)
    \/ \E c \in ConnIds : ToolCallStart(c)
    \/ \E c \in ConnIds : ToolCallEnd(c)
    \/ \E c \in ConnIds : ClientError(c)
    \/ \E c \in ConnIds : ClientClose(c)
    \/ \E c \in ConnIds, ok \in BOOLEAN : DisconnectCloseSettles(c, ok)
    \/ \E g \in SignalIds : Signal(g)
    \/ \E g \in SignalIds, ok \in BOOLEAN : SignalCloseSettles(g, ok)

NextTool ==
    \/ \E t \in ToolClasses, db \in RequestedDatabases,
          nn \in NewNames \cup {NoName}, ms \in MethodLists :
          Invoke(t, db, nn, ms)
    \/ \E ok \in BOOLEAN, err \in Thrown("connect") :
          EnsureConnectedSettles(ok, err)
    \/ \E ok \in BOOLEAN, err \in Thrown("operation") :
          OperationSettles(ok, err)

NextInfo ==
    \/ Start
    \/ \E ok \in BOOLEAN : ValidateSettles(ok)
    \/ \E i \in RunIds : GetInfo(i)
    \/ \E i \in RunIds : GetHealth(i)

SpecPipeline == InitPipeline /\ [][NextPipeline]_vars
SpecServer == InitServer /\ [][NextServer]_vars
SpecTool == InitTool /\ [][NextTool]_vars
SpecInfo == InitInfo /\ [][NextInfo]_vars

----------------------------------------------------------------------------
(* Claims about the execution pipeline (SpecPipeline) *)

Arrived(c) == calls[c].pc # "idle"

WriteCategories == {"create", "update", "delete"}
WriteTools == {t \in ToolClasses : operationType(t) \in WriteCategories}

\* Call c made no connect request and no backend operation.
NoBackendCalls(c) ==
    /\ calls[c].ops = 0
    /\ calls[c].attempt = 0
    /\ ~calls[c].started
    /\ calls[c].provider = 0
    /\ \A e \in backendLog : e.call # c

\* Call c reached the backend: it asked for the connection (step 4).
ReachedBackend(c) == calls[c].attempt # 0 \/ calls[c].provider # 0

ReadToolsProceed ==
    \A c \in CallIds :
        (/\ Arrived(c)
         /\ calls[c].tool \in Registry
         /\ operationType(calls[c].tool) \in {"read", "metadata"}
         /\ calls[c].valid)
        => /\ calls[c].res \notin {"UnknownTool", "InvalidArguments",
                                   "OperationNotPermitted"}
           /\ ReachedBackend(c)

\* C1 (as stated): in read-only mode every call to create-collection,
\* insert-many, rename-collection, drop-collection or drop-database returns
\* OperationNotPermitted and makes no backend call, while calls to read and
\* metadata tools proceed to the backend.
C1_WriteToolsNotPermitted ==
    readOnly =>
        /\ \A c \in CallIds :
              (Arrived(c) /\ calls[c].tool \in WriteTools)
              => /\ calls[c].pc = "done"
                 /\ calls[c].res = "OperationNotPermitted"
                 /\ NoBackendCalls(c)
        /\ ReadToolsProceed

\* C1 (amended): in read-only mode every call to create-collection,
\* insert-many, rename-collection, drop-collection or drop-database ends with
\* an UnknownTool result, none of them being in the registered catalog, and
\* makes no backend call (no connect, no operation), while calls to the
\* registered read and metadata tools proceed to the backend.
C1_WriteToolsUnknown ==
    readOnly =>
        /\ \A c \in CallIds :
              (Arrived(c) /\ calls[c].tool \in WriteTools)
              => /\ calls[c].pc = "done"
                 /\ calls[c].res = "UnknownTool"
                 /\ NoBackendCalls(c)
        /\ ReadToolsProceed

\* A read-only run in which a write tool was refused and a read tool has
\* issued its backend operation.
C1_Witness ==
    /\ readOnly
    /\ \E c \in CallIds :
          /\ calls[c].tool = "drop-database"
          /\ calls[c].valid
          /\ calls[c].res = "UnknownTool"
    /\ \E d \in CallIds :
          /\ calls[d].tool = "find"
          /\ calls[d].ops = 1
          /\ [call |-> d, op |-> "find", db |-> "orders", writes |-> FALSE]
                \in backendLog

\* C2: calls that need the connection while a connect is in flight all await
\* that one attempt: one connect attempt is made, each attempt is started by
\* one caller, every caller of an attempt receives the same connected
\* provider, and the provider becomes connected at most once per attempt.
C2_OneConnectAttempt ==
    /\ \A c \in Waiting :
          /\ providerState = "connecting"
          /\ calls[c].attempt = connectAttempts
    /\ \A c, d \in Waiting : calls[c].attempt = calls[d].attempt
    /\ \A a \in 1..connectAttempts :
          Cardinality({c \in CallIds : calls[c].started /\ calls[c].attempt = a}) = 1
    /\ \A c, d \in CallIds :
          (/\ calls[c].attempt # 0
           /\ calls[c].attempt = calls[d].attempt
           /\ calls[c].provider # 0
           /\ calls[d].provider # 0)
          => calls[c].provider = calls[d].provider
    /\ \A c \in CallIds :
          calls[c].provider # 0 => calls[c].provider = serviceProvider
    /\ connectedCount <= connectAttempts

\* Two calls arrived on the disconnected Session, the second while the
\* connect of the first was in flight, and both hold the connected provider.
C2_Witness ==
    \E c, d \in CallIds :
        /\ c # d
        /\ calls[c].started
        /\ ~calls[d].started
        /\ calls[c].attempt = 1
        /\ calls[d].attempt = 1
        /\ connectAttempts = 1
        /\ calls[c].provider = 1
        /\ calls[d].provider = 1
        /\ providerState = "connected"

\* The names in the catalog of the code.
RegisteredNames ==
    {"list-collections", "collection-schema", "find", "count", "aggregate"}

\* C16: a call to a name that is not in the Registry (a name no tool has, a
\* tool class that is not in the catalog, or a disabled tool) ends with
\* UnknownTool, with no connect attempt and no backend operation.
C16_UnregisteredUnknown ==
    /\ \A c \in CallIds :
          (/\ Arrived(c)
           /\ (calls[c].tool \notin RegisteredNames
                 \/ calls[c].tool \in disabledTools))
          => /\ calls[c].pc = "done"
             /\ calls[c].res = "UnknownTool"
             /\ NoBackendCalls(c)
    /\ (\A c \in CallIds :
           Arrived(c) => (calls[c].tool \notin RegisteredNames
                            \/ calls[c].tool \in disabledTools))
       => connectAttempts = 0 /\ backendLog = {}

\* A tool class outside the catalog and a disabled tool have both been
\* called and answered UnknownTool, without any connect.
C16_Witness ==
    /\ calls[1].tool = "explain"
    /\ calls[1].valid
    /\ calls[1].res = "UnknownTool"
    /\ calls[2].tool = "find"
    /\ "find" \in disabledTools
    /\ calls[2].res = "UnknownTool"
    /\ connectAttempts = 0
    /\ backendLog = {}

\* C17: a call to any tool class with arguments that fail its schema ends
\* with InvalidArguments and no connect or backend operation.
C17_InvalidArgumentsEverywhere ==
    \A c \in CallIds :
        (/\ Arrived(c)
         /\ ~calls[c].valid
         /\ calls[c].tool \in ToolClasses \ disabledTools)
        => /\ calls[c].res = "InvalidArguments"
           /\ NoBackendCalls(c)

\* C17 (amended): arguments that fail the schema end a call to a registered
\* tool with InvalidArguments; a call to rename-collection or insert-many
\* ends with UnknownTool; in both cases the tool body is not entered: no
\* connect and no backend operation.
C17_InvalidArgumentsRegistered ==
    \A c \in CallIds :
        (Arrived(c) /\ ~calls[c].valid)
        => /\ calls[c].pc = "done"
           /\ NoBackendCalls(c)
           /\ calls[c].tool \in RegisteredNames \ disabledTools =>
                 calls[c].res = "InvalidArguments"
           /\ calls[c].tool \in {"rename-collection", "insert-many"} =>
                 calls[c].res = "UnknownTool"

\* A registered tool and rename-collection have both been called with
\* arguments that fail their schema.
C17_Witness ==
    /\ calls[1].tool = "aggregate"
    /\ ~calls[1].valid
    /\ calls[1].res = "InvalidArguments"
    /\ calls[2].tool = "rename-collection"
    /\ ~calls[2].valid
    /\ calls[2].res = "UnknownTool"
    /\ connectAttempts = 0

WriteOps ==
    {"createCollection", "insertMany", "renameCollection", "dropCollection",
     "dropDatabase"}

C26_ReadOnlyNeverWrites ==
    readOnly =>
        \A c \in CallIds :
            calls[c].res = "ok" =>
                \A e \in backendLog : e.call = c => ~e.writes

----------------------------------------------------------------------------
(* Claims about the HTTP wrappers (SpecServer) *)

\* The server built at startup and shared by the process.
SharedServerId == IF variant = HttpServer THEN 1 ELSE globalServer

ConnArrived(c) == conns[c].pc # "none"

Signalled == \E g \in SignalIds : signals[g].pc # "none"

\* Connection c is still open: accepted, not failed, no 'close' seen.
ConnOpen(c) ==
    /\ conns[c].pc \in {"connecting", "serving", "handling"}
    /\ ~conns[c].closeFired

\* C3: under the SSE transport one Session is constructed, at startup, and
\* every client connection uses the server of that Session.
C3_OneSharedSession ==
    variant \in SseVariants =>
        /\ Len(servers) <= 1
        /\ \A c \in ConnIds :
              conns[c].server # 0 => conns[c].server = SharedServerId

\* C4: under the SSE transport every accepted client connection has a server
\* (front-end) of its own, and no server is connected to two client
\* transports.
C4_OwnFrontEnd ==
    variant \in SseVariants =>
        /\ \A c, d \in ConnIds :
              (c # d /\ conns[c].server # 0 /\ conns[d].server # 0)
              => conns[c].server # conns[d].server
        /\ \A s \in DOMAIN servers : Cardinality(servers[s].connectedTo) <= 1

C6_ReleasedAfterResponse ==
    variant = StreamableHttp =>
        \A c \in ConnIds :
            (conns[c].pc \in {"responded", "failed"} /\ conns[c].closeFired)
            => /\ servers[conns[c].server].closeCalls >= 1
               /\ servers[conns[c].server].state # "open"

\* A step of the disconnect handling of connection c.
DisconnectStep(c) ==
    \/ conns'[c].closeFired # conns[c].closeFired
    \/ conns'[c].errorFired # conns[c].errorFired
    \/ conns'[c].closing # conns[c].closing

\* C7: when an SSE client disconnects, the shared server with its Session is
\* left unchanged, no other connection is touched, and every other client
\* that could execute tool calls still can.
C7_DisconnectFrame ==
    [][\A c \in ConnIds :
          (variant \in SseVariants /\ DisconnectStep(c)) =>
             /\ servers'[SharedServerId] = servers[SharedServerId]
             /\ \A d \in ConnIds \ {c} :
                   /\ conns'[d] = conns[d]
                   /\ conns[d].server # 0 =>
                         servers'[conns[d].server] = servers[conns[d].server]
                   /\ (conns[d].server # 0 /\ CanServe(d)) => CanServe(d)'
      ]_vars

\* A client has disconnected and its own server is closed, while the global
\* server is untouched and the other client is still served.
C7_Witness ==
    /\ variant = SseGlobal
    /\ conns[1].closeFired
    /\ servers[conns[1].server].state = "closed"
    /\ CanServe(2)
    /\ conns[2].inflight
    /\ servers[globalServer].state = "open"
    /\ servers[globalServer].closeCalls = 0

\* C8: when the process exits after a termination signal, the listener was
\* stopped first, then the front-end of every open connection was closed,
\* then the shared server, then the exit.
C8_ShutdownOrder ==
    (phase = "exited" /\ Signalled) =>
        /\ shutdownLog[1] = "stopAccepting"
        /\ listener = "closed"
        /\ \A c \in ConnIds :
              ConnOpen(c) => servers[conns[c].server].closeCalls >= 1
        /\ \E i \in DOMAIN shutdownLog :
              /\ shutdownLog[i] = "closeShared"
              /\ shutdownLog[Len(shutdownLog)] = "exit"
              /\ i < Len(shutdownLog)

\* C9: for any sequence of termination signals close is invoked on the
\* shared server at most once.
C9_CloseOnce ==
    SharedServerId \in DOMAIN servers => servers[SharedServerId].closeCalls <= 1

\* C10: after a termination signal the process never exits before close has
\* been requested on the shared server.
C10_CloseBeforeExit ==
    /\ \A i \in DOMAIN shutdownLog :
          shutdownLog[i] = "exit" =>
              \E j \in 1..(i - 1) : shutdownLog[j] = "closeShared"
    /\ (phase = "exited" /\ Signalled) =>
          /\ SharedServerId # 0
          /\ servers[SharedServerId].closeCalls >= 1
          /\ shutdownLog[Len(shutdownLog)] = "exit"

\* The process has exited with status 1 after a signal whose close failed.
C10_Witness ==
    /\ phase = "exited"
    /\ Signalled
    /\ exitCode = 1
    /\ servers[SharedServerId].closeCalls = 1
    /\ servers[SharedServerId].state = "closing"

SignalsDelivered == Cardinality({g \in SignalIds : signals[g].pc # "none"})

\* C11: when the close awaited by a signal handler fails, the failure is
\* logged, close is not called again because of it, and the handler still
\* goes on to its last step: the process exits (with status 1).
C11_CloseFailureStillExits ==
    /\ \A g \in SignalIds : signals[g].pc = "done" => phase = "exited"
    /\ \A i \in DOMAIN shutdownLog :
          shutdownLog[i] = "closeFailed" =>
              /\ i < Len(shutdownLog)
              /\ shutdownLog[i + 1] = "exit"
              /\ phase = "exited"
              /\ exitCode = 1
    /\ (/\ phase = "exited"
        /\ Signalled
        /\ SharedServerId # 0
        /\ servers[SharedServerId].state # "closed")
       => /\ \E i \in DOMAIN shutdownLog : shutdownLog[i] = "closeFailed"
          /\ exitCode = 1
    /\ SharedServerId \in DOMAIN servers =>
          servers[SharedServerId].closeCalls <= SignalsDelivered

\* One signal was delivered, its close failed, the failure was logged and
\* the process exited without a second close.
C11_Witness ==
    /\ shutdownLog = <<"stopAccepting", "closeShared", "closeFailed", "exit">>
    /\ SignalsDelivered = 1
    /\ servers[SharedServerId].closeCalls = 1
    /\ exitCode = 1

\* C12: the process never exits after a termination signal while a tool
\* call of some connection is still in flight (the wrappers have no grace
\* period that could have elapsed instead).
C12_NoExitWhileInflight ==
    (phase = "exited" /\ Signalled) =>
        \A c \in ConnIds : ~conns[c].inflight

\* Connection c has entered closing: its request emitted 'close' or
\* 'error', or a termination signal was delivered.
EnteredClosing(c) ==
    conns[c].closeFired \/ conns[c].errorFired \/ Signalled

\* Nothing further will run for connection c: its handler has passed its
\* last await, the client is gone and no close of its handlers is pending.
ConnOver(c) ==
    /\ conns[c].pc \in {"serving", "failed", "responded"}
    /\ conns[c].closeFired
    /\ conns[c].closing = 0
    /\ ~conns[c].inflight

\* C13: a connection is bound to a server and Session in the step that
\* admits it, starts no request once it has entered closing, and when
\* nothing further will run for it (also after a failed setup) the server
\* built for it has been closed.
C13_ConnectionLifecycle ==
    [][\A c \in ConnIds :
          /\ (conns[c].pc = "none" /\ conns'[c].pc = "connecting") =>
                conns'[c].server # 0
          /\ (~conns[c].inflight /\ conns'[c].inflight) => ~EnteredClosing(c)
          /\ (/\ variant # HttpServer
              /\ phase' = "listening"
              /\ conns'[c].server # 0
              /\ ConnOver(c)')
             => servers'[conns'[c].server].closeCalls >= 1
      ]_vars

\* C14: a disconnect of a client with a tool call in flight does not invoke
\* close on the server (and so the Session and backend connection) that the
\* call is running on.
C14_NoCloseUnderInflightCall ==
    [][\A c \in ConnIds :
          (DisconnectStep(c) /\ conns[c].inflight /\ conns[c].server # 0) =>
             servers'[conns[c].server].closeCalls =
                servers[conns[c].server].closeCalls
      ]_vars

\* The setup or the request handling of connection c fails in this step.
FailureStep(c) ==
    /\ conns[c].pc \in {"connecting", "handling"}
    /\ conns'[c].pc = "failed"

----------------------------------------------------------------------------
(* Claims about the tool classes (SpecTool) *)

Parts(text) == {text[i] : i \in DOMAIN text}

\* The provider method of rename-collection failed with an Error whose
\* codeName is NamespaceExists.
RenameTargetExists ==
    /\ run.pc = "done"
    /\ run.tool = "rename-collection"
    /\ run.error.origin = "operation"
    /\ run.error.isError
    /\ run.error.codeName = "NamespaceExists"

\* C19: when the backend call of rename-collection fails with codeName
\* NamespaceExists, handleError returns a result whose text holds the
\* target name newName and the dropTarget guidance and not the error
\* object, and nothing is thrown on.
C19_RenameTargetExistsResult ==
    RenameTargetExists =>
        /\ run.res = "DomainError"
        /\ ~run.raised
        /\ run.newName \in Parts(run.text)
        /\ DropTargetGuidance \in Parts(run.text)
        /\ RawErrorText \notin Parts(run.text)

\* rename-collection to "archive" in the default database failed with
\* NamespaceExists and was answered.
C19_Witness ==
    /\ RenameTargetExists
    /\ run.database = NoDatabase
    /\ defaultDatabase = "app"
    /\ run.newName = "archive"
    /\ run.text = <<"Cannot rename \"", "app", ".", "events", "\" to \"",
                    "archive", DropTargetGuidance>>

\* C20: whatever execute throws, the run of a tool ends in a result:
\* handleError never throws.
C20_TranslatorNeverRaises ==
    run.pc = "done" => (~run.raised /\ run.res # "none")

----------------------------------------------------------------------------
(* Claims about /health and /info (SpecInfo) *)

\* Runs 1 and 2 agree on which of the secret values are present (set and
\* non-empty); the rest of the configuration is shared.
SamePresence ==
    /\ Truthy(secretConfig[1].apiClientId) = Truthy(secretConfig[2].apiClientId)
    /\ Truthy(secretConfig[1].apiClientSecret)
          = Truthy(secretConfig[2].apiClientSecret)
    /\ Truthy(secretConfig[1].connectionString)
          = Truthy(secretConfig[2].connectionString)

\* C21: two runs whose configurations differ only in the values of
\* apiClientId, apiClientSecret and connectionString, not in their presence,
\* return the same /info and /health bodies; the config part of /info holds
\* two presence booleans, the read-only flag and the disabled-tool list.
C21_InfoIndependentOfSecrets ==
    /\ (SamePresence /\ responses.info[1].sent /\ responses.info[2].sent)
          => responses.info[1] = responses.info[2]
    /\ (SamePresence /\ responses.health[1].sent /\ responses.health[2].sent)
          => responses.health[1] = responses.health[2]
    /\ \A i \in RunIds :
          responses.info[i].sent =>
             /\ DOMAIN responses.info[i].config =
                   {"hasAtlasCredentials", "hasConnectionString", "readOnly",
                    "disabledTools"}
             /\ responses.info[i].config.hasAtlasCredentials \in BOOLEAN
             /\ responses.info[i].config.hasConnectionString \in BOOLEAN
             /\ responses.info[i].config.readOnly = readOnly
             /\ responses.info[i].config.disabledTools = disabledTools

\* Both runs have answered /info; their credentials and connection strings
\* are all set and all different.
C21_Witness ==
    /\ responses.info[1].sent
    /\ responses.info[2].sent
    /\ responses.info[1].config.hasConnectionString
    /\ responses.info[1].config.hasAtlasCredentials
    /\ secretConfig[1] = [apiClientId |-> "s3cr3t-A", apiClientSecret |-> "s3cr3t-A",
                          connectionString |-> "s3cr3t-A"]
    /\ secretConfig[2] = [apiClientId |-> "s3cr3t-B", apiClientSecret |-> "s3cr3t-B",
                          connectionString |-> "s3cr3t-B"]

----------------------------------------------------------------------------
(* Claims about the tool bodies (SpecTool) *)

BodySteps == <<"ensureConnected", "getEffectiveDatabase", "operation">>

\* The database the run must work on, from its argument and the default.
RunDatabase ==
    IF run.database \notin {NoDatabase, ""} THEN run.database
    ELSE defaultDatabase

\* C22: a tool body asks for the connection, then resolves the effective
\* database, then sends its backend operation, each at most once; the
\* operation goes to the effective database; none is sent when connecting
\* or resolving the database failed, and a failed operation is not sent
\* again.
C22_ToolBodyOrder ==
    run.pc # "idle" =>
        /\ Len(run.trace) <= Len(BodySteps)
        /\ run.trace = SubSeq(BodySteps, 1, Len(run.trace))
        /\ Len(run.ops) <= 1
        /\ (Len(run.ops) = 1) <=> (run.trace = BodySteps)
        /\ \A i \in DOMAIN run.ops :
              run.ops[i].db = RunDatabase /\ RunDatabase \notin {NoDatabase, ""}
        /\ (run.pc = "done" /\ run.error.origin = "connect") =>
              run.trace = <<"ensureConnected">> /\ run.ops = <<>>
        /\ (run.pc = "done" /\ run.error.origin = "database") =>
              /\ run.trace = <<"ensureConnected", "getEffectiveDatabase">>
              /\ run.ops = <<>>
        /\ (run.pc = "done" /\ run.error.origin = "operation") =>
              run.trace = BodySteps /\ Len(run.ops) = 1

\* create-collection, on the default database, has failed in its one
\* backend operation.
C22_Witness ==
    /\ run.pc = "done"
    /\ run.tool = "create-collection"
    /\ run.database = ""
    /\ defaultDatabase = "app"
    /\ run.error.origin = "operation"
    /\ run.trace = BodySteps
    /\ run.ops = <<[op |-> "createCollection", of |-> "none", db |-> "app"]>>

\* The error is one the translator of tool t lists.
Claimed(t, err) ==
    /\ err.isError
    /\ \/ t = "collection-indexes" /\ err.codeName = "NamespaceNotFound"
       \/ t = "rename-collection"
             /\ err.codeName \in {"NamespaceNotFound", "NamespaceExists"}

\* C23: an error the tool's translator does not list (any other codeName,
\* no codeName, a thrown value that is not an Error) gets the result of the
\* generic handler: an error result with the error's message, of kind
\* ExecutionFailed when the backend operation or the body threw it.
C23_TranslatorScope ==
    (run.pc = "done" /\ run.error.origin # "none"
        /\ ~Claimed(run.tool, run.error))
    => /\ ~run.raised
       /\ run.res = SuperHandleError(run.tool, run.error, run).res
       /\ run.text = <<"Error running ", run.tool, ": ", run.error.message>>
       /\ run.error.origin \in {"operation", "execute"} =>
             run.res = "ExecutionFailed"

\* C24: explain sends one explain request, for the first element of its
\* method list, and no aggregate, find or count; with an empty list it
\* fails with the "No method provided" error after connecting and resolving
\* the database, and sends nothing.
C24_ExplainFirstMethodOnly ==
    run.tool = "explain" =>
        /\ Len(run.ops) <= 1
        /\ \A i \in DOMAIN run.ops :
              /\ run.method # <<>>
              /\ run.ops[i] = [op |-> "explain", of |-> run.method[1],
                               db |-> RunDatabase]
        /\ (run.pc = "done" /\ run.res = "ok") => Len(run.ops) = 1
        /\ (run.pc \in {"awaitOp", "done"} /\ run.method = <<>>
               /\ run.error.origin \notin {"connect", "database"})
           => /\ run.pc = "done"
              /\ run.error = NoMethodError
              /\ run.trace = <<"ensureConnected", "getEffectiveDatabase">>
              /\ run.ops = <<>>
              /\ run.res = "ExecutionFailed"
              /\ NoMethodError.message \in Parts(run.text)

\* explain of <<find, aggregate>> on "orders" has returned after one explain
\* request for find.
C24_Witness ==
    /\ run.tool = "explain"
    /\ run.pc = "done"
    /\ run.res = "ok"
    /\ run.method = <<"find", "aggregate">>
    /\ run.ops = <<[op |-> "explain", of |-> "find", db |-> "orders"]>>

----------------------------------------------------------------------------
(* Claims about connection teardown and startup (SpecServer) *)

\* C27: once the connection of an SSE client has ended and nothing further
\* will run for it, close has been requested on the server built for it;
\* also when the client left while server.connect was awaited, and when
\* server.connect failed.
C27_PerConnectionServerClosed ==
    (variant = SseGlobal /\ phase = "listening") =>
        \A c \in ConnIds :
            (conns[c].server # 0 /\ ConnOver(c)) =>
                servers[conns[c].server].closeCalls >= 1

\* C28: close is invoked at most once on the server of an SSE connection,
\* whatever 'error' and 'close' events its request emits.
C28_PerConnectionCloseOnce ==
    variant = SseGlobal =>
        \A c \in ConnIds :
            conns[c].server # 0 => servers[conns[c].server].closeCalls <= 1

\* C29: in the wrappers with a global server the listener exists only once
\* that server is constructed and validated; a failed initialisation exits
\* with status 1 without a listener; every request handled found the
\* global server initialised and was given a server.
C29_ListenAfterInit ==
    variant \in {SseGlobal, StreamableHttp} =>
        /\ listener # "none" =>
              /\ isServerInitialized
              /\ globalServer \in DOMAIN servers
        /\ (phase = "exited" /\ ~Signalled) =>
              /\ exitCode = 1
              /\ listener = "none"
              /\ \A c \in ConnIds : conns[c].pc = "none"
        /\ \A c \in ConnIds :
              conns[c].pc # "none" =>
                 /\ isServerInitialized
                 /\ globalServer # 0
                 /\ conns[c].server # 0

\* An SSE client is being served by the wrapper with the global server.
C29_Witness ==
    /\ variant = SseGlobal
    /\ listener = "accepting"
    /\ isServerInitialized
    /\ conns[1].pc = "serving"
    /\ conns[1].status = 200

\* C30: isServerInitialized holds exactly when globalServer is set; once
\* set both stay as they are, through shutdown too; a failed initialisation
\* leaves both unset; and initializeGlobalServer called where both are set
\* returns the global server without building anything.
C30_InitializedIffGlobalServer ==
    [][/\ isServerInitialized' <=> (globalServer' # 0)
       /\ globalServer # 0 => globalServer' = globalServer
       /\ isServerInitialized => isServerInitialized'
       /\ (phase = "validating" /\ phase' = "exited") =>
             (globalServer' = 0 /\ ~isServerInitialized')
       /\ isServerInitialized' =>
             LET again == initializeGlobalServer(globalServer',
                              isServerInitialized', servers')
             IN  /\ again.server = globalServer'
                 /\ again.servers = servers'
                 /\ ~again.awaits
      ]_vars

\* The process has exited after a termination signal and both are still
\* set.
C30_Witness ==
    /\ phase = "exited"
    /\ Signalled
    /\ exitCode = 0
    /\ isServerInitialized
    /\ globalServer # 0
    /\ servers[globalServer].state = "closed"

\* C31: in all three server variants, when handling a GET /sse or POST /mcp
\* request fails, the error status and body are written only if the response
\* head has not been sent yet: no handler calls res.status(500).json(...) on
\* a response that was already started.
C31_NoSecondResponseStart ==
    \A c \in ConnIds : ~conns[c].lateError

(* The database a result text names (SpecTool) *)

\* The parts of the result texts after which a database name is put in.
DatabaseLeadIns ==
    {"No collections found for database \"", "\" created in database \"",
     "Statistics for database ", "\" in database \"", "\" from database \"",
     " database \"", " operation in \"", "Cannot rename \"",
     "The indexes for \""}

\* The database names a text holds.
NamedDatabases(text) ==
    {text[i + 1] : i \in {j \in DOMAIN text :
                             j < Len(text) /\ text[j] \in DatabaseLeadIns}}

\* C32: every result text of a tool that names a database names the
\* effective database, the one that was passed to the backend call: the
\* requested one if given, otherwise the default; so does the empty-result
\* message of list-collections when the request left the database out.
C32_TextNamesEffectiveDatabase ==
    (run.pc = "done" /\ run.res # "none") =>
        \A d \in NamedDatabases(run.text) :
            /\ d = RunDatabase
            /\ \A i \in DOMAIN run.ops : d = run.ops[i].db

====
